---- MODULE Spec2Model ----
(***************************************************************************)
(* A model of contigs_indexing.py (dScaff): the per-file record filter     *)
(* filter_one_file, the per-directory enrich_and_write, and the fan-out /  *)
(* fan-in of main over a process pool.                                     *)
(*                                                                         *)
(* Fields of a row are strings, as csv.reader yields them.  float(s) is    *)
(* the table ParseFloat over the literals the model uses; a float is a     *)
(* record [k, n]: k = "num" with n the value in tenths, k = "nan", or      *)
(* k = "inf".  Products gene_length * multiplier are exact in tenths       *)
(* because every gene_length literal is an integer.                        *)
(***************************************************************************)
EXTENDS Integers, Sequences, FiniteSets, Bags, TLC

\* ------------------------------------------------------------------ bounds
\* Rows of one input file in SpecFilter.
MaxRows == 3
\* Rows of one accumulator in SpecEnrich.
MaxAcc == 3
\* Submitted (directory, file) tasks of one run in Spec.
MaxTasks == 3

\* --------------------------------------------------------------- constants
IDX_LENGTH == 3
IDX_EVALUE == 10
IDX_GENELEN == 12
\* len(rec) != 13 in read_tsv_13
NCOLS == 13

\* ------------------------------------------------------------------ floats
Num(n) == [k |-> "num", n |-> n]
NaN == [k |-> "nan", n |-> 0]
Inf == [k |-> "inf", n |-> 0]

IntLit == <<"0", "1", "2", "3", "4", "5", "6", "7", "8", "9">>
FloatLit == <<"0.0", "1.0", "2.0", "3.0", "4.0", "5.0", "6.0", "7.0", "8.0", "9.0">>

\* float(s): [ok |-> FALSE] stands for ValueError.
ParseFloat(s) ==
  IF \E i \in 1..Len(IntLit) : IntLit[i] = s
  THEN [ok |-> TRUE, v |-> Num(10 * ((CHOOSE i \in 1..Len(IntLit) : IntLit[i] = s) - 1))]
  ELSE IF \E i \in 1..Len(FloatLit) : FloatLit[i] = s
  THEN [ok |-> TRUE, v |-> Num(10 * ((CHOOSE i \in 1..Len(FloatLit) : FloatLit[i] = s) - 1))]
  ELSE IF s = "nan" THEN [ok |-> TRUE, v |-> NaN]
  ELSE IF s = "inf" THEN [ok |-> TRUE, v |-> Inf]
  ELSE [ok |-> FALSE, v |-> NaN]

\* str(x) of a float x: "5.0", "nan", "inf".
FloatStr(x) ==
  IF x.k = "num" THEN FloatLit[(x.n \div 10) + 1]
  ELSE IF x.k = "nan" THEN "nan" ELSE "inf"

\* a < b on floats: every comparison with NaN is False.
FLt(a, b) ==
  IF a.k = "nan" \/ b.k = "nan" THEN FALSE
  ELSE IF a.k = "inf" THEN FALSE
  ELSE IF b.k = "inf" THEN TRUE
  ELSE a.n < b.n

\* a <= b on floats.
FLe(a, b) ==
  IF a.k = "nan" \/ b.k = "nan" THEN FALSE
  ELSE IF b.k = "inf" THEN TRUE
  ELSE IF a.k = "inf" THEN FALSE
  ELSE a.n <= b.n

\* a >= b on floats.
FGe(a, b) == FLe(b, a)

\* a * b on non-negative floats (inf * 0 is NaN).
FMul(a, b) ==
  IF a.k = "nan" \/ b.k = "nan" THEN NaN
  ELSE IF a.k = "inf" \/ b.k = "inf"
  THEN (IF (a.k = "num" /\ a.n = 0) \/ (b.k = "num" /\ b.n = 0) THEN NaN ELSE Inf)
  ELSE Num((a.n * b.n) \div 10)

\* -------------------------------------------------------------------- rows
\* A 13-column record of a queries/*.csv file (BASE_HEADER order).
Rec(q, subj, len, ss, se, gl) ==
  <<q, subj, "97.5", len, "0", "0", "1", "2", ss, se, "1e-5", "50", gl>>

\* A record with 12 columns: the file that holds it is malformed.
ShortRec == <<"g1", "c1", "97.5", "6", "0", "0", "1", "2", "10", "20", "1e-5", "50">>

\* Python indexes from 0.
At(r, idx) == r[idx + 1]

\* ------------------------------------------------------------ read_tsv_13
\* A file is [readable, rows]; the result is [raised, rows].
read_tsv_13(file) ==
  IF ~file.readable THEN [raised |-> TRUE, rows |-> <<>>]
  ELSE IF \E i \in 1..Len(file.rows) : Len(file.rows[i]) # NCOLS
  THEN [raised |-> TRUE, rows |-> <<>>]
  ELSE [raised |-> FALSE, rows |-> file.rows]

\* -------------------------------------------------------- filter_one_file
\* if lv >= thr, with lv = float(r[IDX_LENGTH]); rows that do not parse are skipped.
pick(rows, gl, mult) ==
  SelectSeq(rows, LAMBDA r : ParseFloat(At(r, IDX_LENGTH)).ok
                             /\ FGe(ParseFloat(At(r, IDX_LENGTH)).v, FMul(gl, mult)))

\* A loop that goes on after a tier that matched, collecting every tier.
RECURSIVE tiers_union(_, _, _)
tiers_union(rows, gl, ms) ==
  IF ms = <<>> THEN <<>>
  ELSE LET out == pick(rows, gl, Head(ms))
       IN IF out # <<>> THEN out \o tiers_union(rows, gl, Tail(ms))
          ELSE tiers_union(rows, gl, Tail(ms))

\* for m in (parm3, parm4, parm5): out = pick(m); if out: return out
RECURSIVE tiers(_, _, _)
tiers(rows, gl, ms) ==
  IF ms = <<>> THEN <<>>
  ELSE LET out == pick(rows, gl, Head(ms))
       IN IF out # <<>> THEN out ELSE tiers(rows, gl, Tail(ms))

\* A gate that lets gene_length = parm2 through.
gate_lt(gl, parm2) == FLt(gl, parm2)

\* if gl <= parm2: return []
gate(gl, parm2) == FLe(gl, parm2)

\* The body of the try block (lines 96-122): [raised, rows].
filter_body(file, parm2, parm3, parm4, parm5) ==
  LET rd == read_tsv_13(file)
  IN IF rd.raised THEN [raised |-> TRUE, rows |-> <<>>]
     ELSE IF rd.rows = <<>> THEN [raised |-> FALSE, rows |-> <<>>]
     ELSE LET g == ParseFloat(At(rd.rows[1], IDX_GENELEN))
          IN IF ~g.ok THEN [raised |-> FALSE, rows |-> <<>>]
             ELSE IF gate(g.v, parm2) THEN [raised |-> FALSE, rows |-> <<>>]
             ELSE [raised |-> FALSE,
                   rows |-> tiers(rd.rows, g.v, <<parm3, parm4, parm5>>)]

\* A task without the except clause: what the try block raises leaves the task.
filter_one_file_nocatch(file, parm2, parm3, parm4, parm5) ==
  filter_body(file, parm2, parm3, parm4, parm5)

\* except Exception: return []
filter_one_file(file, parm2, parm3, parm4, parm5) ==
  LET b == filter_body(file, parm2, parm3, parm4, parm5)
  IN IF b.raised THEN [raised |-> FALSE, rows |-> <<>>] ELSE b

\* -------------------------------------------------------- enrich_and_write
\* An annotation file query_filtered.csv is [exists, recs]; a rec is
\* [fid, start, stop, scaff, short], short meaning the csv row has fewer
\* fields than the header, so that csv.DictReader gives None for start/stop.
\* float(rec.get("start", "nan")) with the except ValueError fallback.
FloatOrNaN(s) == IF ParseFloat(s).ok THEN ParseFloat(s).v ELSE NaN

\* The loop of lines 133-146: [raised, map]; float(None) raises TypeError,
\* which the except ValueError clauses do not catch.
RECURSIVE load_genes(_, _)
load_genes(recs, genes) ==
  IF recs = <<>> THEN [raised |-> FALSE, map |-> genes]
  ELSE LET rec == Head(recs)
       IN IF rec.fid = "" THEN load_genes(Tail(recs), genes)
          ELSE IF rec.short THEN [raised |-> TRUE, map |-> genes]
          ELSE load_genes(Tail(recs),
                 [f \in (DOMAIN genes) \cup {rec.fid} |->
                    IF f = rec.fid
                    THEN <<FloatOrNaN(rec.start), FloatOrNaN(rec.stop), rec.scaff>>
                    ELSE genes[f]])

\* The map with no entry.
NoGenes == [f \in {} |-> <<NaN, NaN, "">>]

\* Lines 151-156: seen / dedup.
RECURSIVE dedup_from(_, _)
dedup_from(base_rows, seen) ==
  IF base_rows = <<>> THEN <<>>
  ELSE IF Head(base_rows) \in seen THEN dedup_from(Tail(base_rows), seen)
  ELSE <<Head(base_rows)>> \o dedup_from(Tail(base_rows), seen \cup {Head(base_rows)})

\* A dedup that compares only query_name.
RECURSIVE dedup_by_name(_, _)
dedup_by_name(base_rows, seen) ==
  IF base_rows = <<>> THEN <<>>
  ELSE IF Head(base_rows)[1] \in seen THEN dedup_by_name(Tail(base_rows), seen)
  ELSE <<Head(base_rows)>> \o dedup_by_name(Tail(base_rows), seen \cup {Head(base_rows)[1]})

Dedup_query_name(base_rows) == dedup_by_name(base_rows, {})

Dedup(base_rows) == dedup_from(base_rows, {})

\* Lines 160-165.
Orientation(base) ==
  LET s == ParseFloat(At(base, 8))
      e == ParseFloat(At(base, 9))
  IN IF s.ok /\ e.ok THEN (IF FLt(s.v, e.v) THEN "plus" ELSE "minus") ELSE "minus"

\* Lines 167-202: the 20 fields of FINAL_HEADER.
EnrichRow(base, genes, contig_len_map) ==
  LET g == IF At(base, 0) \in DOMAIN genes THEN genes[At(base, 0)] ELSE <<NaN, NaN, "">>
      clen == IF At(base, 1) \in DOMAIN contig_len_map
              THEN contig_len_map[At(base, 1)] ELSE NaN
  IN SubSeq(base, 1, IDX_EVALUE)
     \o <<FloatStr(g[1]), FloatStr(g[2])>>
     \o SubSeq(base, IDX_EVALUE + 1, NCOLS)
     \o <<g[3], FloatStr(g[1]), FloatStr(g[2]), Orientation(base), FloatStr(clen)>>

\* FINAL_HEADER.index("genomic_start")
gs_idx == 10

\* def srt(row): float(row[gs_idx]), math.inf on ValueError.
srt(row) == IF ParseFloat(At(row, gs_idx)).ok THEN ParseFloat(At(row, gs_idx)).v ELSE Inf

\* list.sort(key=srt) for fewer than 64 elements (CPython): the first run is
\* found by count_run (a strictly descending run is reversed), and the rest is
\* inserted by binarysort.  Every comparison is key(x) < key(y).
RECURSIVE run_len(_, _, _)
run_len(s, i, descending) ==
  IF i > Len(s) THEN Len(s)
  ELSE IF FLt(srt(s[i]), srt(s[i - 1])) = descending THEN run_len(s, i + 1, descending)
  ELSE i - 1

Reverse(s) == [i \in 1..Len(s) |-> s[Len(s) + 1 - i]]

RECURSIVE bin_pos(_, _, _, _)
bin_pos(s, pivot, l, r) ==
  IF l >= r THEN l
  ELSE LET p == l + ((r - l) \div 2)
       IN IF FLt(srt(pivot), srt(s[p])) THEN bin_pos(s, pivot, l, p)
          ELSE bin_pos(s, pivot, p + 1, r)

RECURSIVE binarysort(_, _)
binarysort(s, start) ==
  IF start > Len(s) THEN s
  ELSE LET l == bin_pos(s, s[start], 1, start)
       IN binarysort(SubSeq(s, 1, l - 1) \o <<s[start]>> \o SubSeq(s, l, start - 1)
                       \o SubSeq(s, start + 1, Len(s)),
                     start + 1)

\* A sort that leaves the rows as they are.
PySort_unsorted(s) == s

PySort(s) ==
  IF Len(s) < 2 THEN s
  ELSE LET descending == FLt(srt(s[2]), srt(s[1]))
           n == run_len(s, 3, descending)
           t == IF descending THEN Reverse(SubSeq(s, 1, n)) \o SubSeq(s, n + 1, Len(s)) ELSE s
       IN binarysort(t, n + 1)

\* enrich_and_write(subdir, base_rows, contig_len_map, genes_path):
\* [raised, dedup, rows]; rows are the rows written under the header.
enrich_and_write(base_rows, contig_len_map, annot) ==
  LET lg == IF annot.exists THEN load_genes(annot.recs, NoGenes)
            ELSE [raised |-> FALSE, map |-> NoGenes]
      dd == Dedup(base_rows)
  IN IF lg.raised THEN [raised |-> TRUE, dedup |-> <<>>, rows |-> <<>>]
     ELSE [raised |-> FALSE, dedup |-> dd,
           rows |-> PySort([i \in 1..Len(dd) |-> EnrichRow(dd[i], lg.map, contig_len_map)])]

\* ------------------------------------------------------------------ inputs
\* Records: gene g1 is annotated at start 5, g2 at start 3, g9 is not annotated.
RowA == Rec("g1", "c1", "6", "10", "20", "6")
RowB == Rec("g1", "c2", "6", "20", "10", "6")
RowC == Rec("g2", "c1", "6", "10", "20", "6")
RowD == Rec("g9", "c9", "6", "NA", "20", "6")
RowLen3 == Rec("g1", "c3", "3", "10", "20", "6")
RowLen2 == Rec("g1", "c4", "2", "10", "20", "6")
RowLenNA == Rec("g1", "c5", "NA", "10", "20", "6")
RowLenNaN == Rec("g1", "c6", "nan", "10", "20", "6")
RowGl1 == Rec("g1", "c1", "6", "10", "20", "1")
RowGlNA == Rec("g1", "c1", "6", "10", "20", "NA")
RowGlNaN == Rec("g1", "c1", "6", "10", "20", "nan")

File(rows) == [readable |-> TRUE, rows |-> rows]
Unreadable == [readable |-> FALSE, rows |-> <<>>]

SeqsUpTo(S, n) == UNION {[1..k -> S] : k \in 0..n}

\* Rows of the files of SpecFilter.
FilterRowPool ==
  {RowA, RowLen3, RowLen2, RowLenNA, RowLenNaN, RowGl1, RowGlNA, RowGlNaN, ShortRec}

\* parm2, and the multipliers parm3, parm4, parm5 (float(frac) / 10.0).
Parm2Pool == {Num(20), Num(60)}
MultPool == {Num(3), Num(5), Num(9)}

\* query_filtered.csv files.
GeneRec(fid, start) == [fid |-> fid, start |-> start, stop |-> "9", scaff |-> "sc1", short |-> FALSE]
AnnotAbsent == [exists |-> FALSE, recs |-> <<>>]
AnnotGood == [exists |-> TRUE, recs |-> <<GeneRec("g1", "5"), GeneRec("g2", "3")>>]
AnnotOdd == [exists |-> TRUE,
             recs |-> <<GeneRec("", "1"), GeneRec("g1", "7"), GeneRec("g2", "x"), GeneRec("g1", "5")>>]
AnnotShort == [exists |-> TRUE,
               recs |-> <<GeneRec("g1", "5"),
                          [fid |-> "g2", start |-> "", stop |-> "", scaff |-> "", short |-> TRUE]>>]

\* lungimi_contiguri.csv, as load_contig_lengths returns it.
ContigLens == [c \in {"c1", "c2"} |-> IF c = "c1" THEN Num(70) ELSE NaN]
NoContigLens == [c \in {} |-> NaN]

\* --------------------------------------------------------------- variables
VARIABLES
  f_pc, f_file, f_parms, f_out,
  e_pc, e_rows, e_annot, e_res,
  pc, subdirs, queries, parms, contig_len_map,
  by_dir_rows, fut_to_dir, fut_state, fs, collected,
  wi, annot_read, output, enrich_calls, exc

fvars == <<f_pc, f_file, f_parms, f_out>>
evars == <<e_pc, e_rows, e_annot, e_res>>
mvars == <<pc, subdirs, queries, parms, by_dir_rows, fut_to_dir, fut_state, fs,
           collected, wi, annot_read, output, enrich_calls, exc>>
vars == <<fvars, evars, mvars, contig_len_map>>

NoResult == [raised |-> FALSE, rows |-> <<>>]
NoEnrich == [raised |-> FALSE, dedup |-> <<>>, rows |-> <<>>]
Parms(p2, p3, p4, p5) == [parm2 |-> p2, parm3 |-> p3, parm4 |-> p4, parm5 |-> p5]

FilterIdle ==
  /\ f_pc = "idle" /\ f_file = File(<<>>) /\ f_out = NoResult
  /\ f_parms = Parms(Num(0), Num(0), Num(0), Num(0))

EnrichIdle ==
  /\ e_pc = "idle" /\ e_rows = <<>> /\ e_annot = AnnotAbsent /\ e_res = NoEnrich

MainIdle ==
  /\ pc = "idle" /\ subdirs = <<>> /\ queries = <<>>
  /\ parms = Parms(Num(0), Num(0), Num(0), Num(0))
  /\ by_dir_rows = <<>> /\ fut_to_dir = <<>> /\ fut_state = <<>> /\ fs = <<>>
  /\ collected = {} /\ wi = 1 /\ annot_read = <<>> /\ output = <<>>
  /\ enrich_calls = <<>> /\ exc = ""

\* --------------------------------------------- SpecFilter: filter_one_file
FilterInit ==
  /\ f_pc = "ready"
  /\ f_file \in {File(rs) : rs \in SeqsUpTo(FilterRowPool, MaxRows)} \cup {Unreadable}
  /\ f_parms \in {Parms(p2, p3, p4, p5) : p2 \in Parm2Pool, p3 \in MultPool,
                                          p4 \in MultPool, p5 \in MultPool}
  /\ f_out = NoResult
  /\ EnrichIdle /\ MainIdle /\ contig_len_map = NoContigLens

FilterCall ==
  /\ f_pc = "ready"
  /\ f_out' = filter_one_file(f_file, f_parms.parm2, f_parms.parm3, f_parms.parm4, f_parms.parm5)
  /\ f_pc' = "returned"
  /\ UNCHANGED <<f_file, f_parms, evars, mvars, contig_len_map>>

FilterNext == FilterCall

SpecFilter == FilterInit /\ [][FilterNext]_vars

\* -------------------------------------------- SpecEnrich: enrich_and_write
EnrichRowPool == {RowA, RowB, RowC, RowD}

EnrichInit ==
  /\ e_pc = "ready"
  /\ e_rows \in SeqsUpTo(EnrichRowPool, MaxAcc)
  /\ e_annot \in {AnnotAbsent, AnnotGood, AnnotOdd, AnnotShort}
  /\ contig_len_map \in {ContigLens, NoContigLens}
  /\ e_res = NoEnrich
  /\ FilterIdle /\ MainIdle

EnrichCall ==
  /\ e_pc = "ready"
  /\ e_res' = enrich_and_write(e_rows, contig_len_map, e_annot)
  /\ e_pc' = IF e_res'.raised THEN "raised" ELSE "written"
  /\ UNCHANGED <<e_rows, e_annot, fvars, mvars, contig_len_map>>

EnrichNext == EnrichCall

SpecEnrich == EnrichInit /\ [][EnrichNext]_vars

\* ------------------------------------------------------------ Spec: main
\* Chromosome directories under mainDir.
Dirs == {"2L", "2R"}

\* discover_subdirs(main_dir): the directories in the order iterdir gives them.
DiscoveryOrder == <<"2L", "2R">>

\* The files a task may find at its path.
File1 == File(<<RowA, RowLen2>>)
File2 == File(<<RowB, RowA>>)
File3 == File(<<RowC>>)
FileBad == File(<<RowA, ShortRec>>)
FileGated == File(<<RowGl1>>)
MainFiles == {File1, File2, File3, FileBad, FileGated}
MainAnnots == {AnnotAbsent, AnnotGood, AnnotShort}
MainParms == Parms(Num(20), Num(9), Num(5), Num(3))

RECURSIVE SumOver(_, _)
SumOver(f, S) ==
  IF S = {} THEN 0 ELSE LET x == CHOOSE y \in S : TRUE IN f[x] + SumOver(f, S \ {x})

\* per_dir_files after line 236: the directories with at least one file, in
\* discovery order.
per_dir_files == SelectSeq(subdirs, LAMBDA sd : queries[sd] > 0)

\* The futures in submission order (lines 246-249); a future is <<sd, i>>,
\* the i-th file of the sorted list of sd.
RECURSIVE futures_of(_)
futures_of(ds) ==
  IF ds = <<>> THEN <<>>
  ELSE [i \in 1..queries[Head(ds)] |-> <<Head(ds), i>>] \o futures_of(Tail(ds))

Futures == futures_of(per_dir_files)
Range(q) == {q[i] : i \in 1..Len(q)}

\* A future: pending, or finished with what the task returned or raised.
Pending == [done |-> FALSE, raised |-> FALSE, rows |-> <<>>]
Finished(res) == [done |-> TRUE, raised |-> res.raised, rows |-> res.rows]

Put(f, x, v) == [y \in (DOMAIN f) \cup {x} |-> IF y = x THEN v ELSE f[y]]

MainInit ==
  /\ pc = "start"
  /\ subdirs = DiscoveryOrder
  /\ queries \in {q \in [Dirs -> 0..MaxTasks] : SumOver(q, Dirs) <= MaxTasks}
  /\ parms = MainParms
  /\ contig_len_map = ContigLens
  /\ by_dir_rows = <<>> /\ fut_to_dir = <<>> /\ fut_state = <<>> /\ fs = <<>>
  /\ collected = {} /\ wi = 1 /\ annot_read = <<>> /\ output = <<>>
  /\ enrich_calls = <<>> /\ exc = ""
  /\ FilterIdle /\ EnrichIdle

\* Lines 233-244.
Discover ==
  /\ pc = "start"
  /\ IF per_dir_files = <<>>
     THEN pc' = "nowork" /\ UNCHANGED by_dir_rows
     ELSE pc' = "submit" /\ by_dir_rows' = [sd \in Range(per_dir_files) |-> <<>>]
  /\ UNCHANGED <<subdirs, queries, parms, fut_to_dir, fut_state, fs, collected, wi,
                 annot_read, output, enrich_calls, exc, fvars, evars, contig_len_map>>

\* Lines 248-249: one ex.submit and its tag.
Submit ==
  /\ pc = "submit"
  /\ LET k == Cardinality(DOMAIN fut_to_dir) + 1
         fut == Futures[k]
     IN /\ fut_to_dir' = Put(fut_to_dir, fut, fut[1])
        /\ fut_state' = Put(fut_state, fut, Pending)
        /\ pc' = IF k = Len(Futures) THEN "collect" ELSE "submit"
  /\ UNCHANGED <<subdirs, queries, parms, by_dir_rows, fs, collected, wi, annot_read,
                 output, enrich_calls, exc, fvars, evars, contig_len_map>>

\* A worker process runs filter_one_file on the file it finds at the path.
RunTask(fut) ==
  /\ pc \in {"submit", "collect"}
  /\ fut \in DOMAIN fut_state /\ ~fut_state[fut].done
  /\ \E file \in MainFiles :
       /\ fs' = Put(fs, fut, file)
       /\ fut_state' = Put(fut_state, fut,
            Finished(filter_one_file(file, parms.parm2, parms.parm3, parms.parm4, parms.parm5)))
  /\ UNCHANGED <<pc, subdirs, queries, parms, by_dir_rows, fut_to_dir, collected, wi,
                 annot_read, output, enrich_calls, exc, fvars, evars, contig_len_map>>

\* A collector that tags every result with the directory of the first future.
route_first(tags, fut) == tags[Futures[1]]

\* sd = fut_to_dir[fut]
route(tags, fut) == tags[fut]

\* by_dir_rows[sd].extend(rows)
extend(acc, rows) == acc \o rows

\* Lines 252-256: as_completed yields a finished future; fut.result() raises
\* what the task raised.
Collect(fut) ==
  /\ pc = "collect"
  /\ fut \in DOMAIN fut_state /\ fut_state[fut].done /\ fut \notin collected
  /\ LET sd == route(fut_to_dir, fut)
         res == fut_state[fut]
     IN IF res.raised
        THEN pc' = "aborted" /\ exc' = "task" /\ UNCHANGED <<by_dir_rows, collected>>
        ELSE /\ by_dir_rows' = IF res.rows # <<>>
                               THEN [by_dir_rows EXCEPT ![sd] = extend(@, res.rows)]
                               ELSE by_dir_rows
             /\ collected' = collected \cup {fut}
             /\ pc' = IF collected' = Range(Futures) THEN "write" ELSE "collect"
             /\ UNCHANGED exc
  /\ UNCHANGED <<subdirs, queries, parms, fut_to_dir, fut_state, fs, wi, annot_read,
                 output, enrich_calls, fvars, evars, contig_len_map>>

\* Lines 259-261: one iteration; an exception of enrich_and_write leaves main.
Write ==
  /\ pc = "write"
  /\ LET sd == per_dir_files[wi]
     IN \E annot \in MainAnnots :
          LET res == enrich_and_write(by_dir_rows[sd], contig_len_map, annot)
          IN /\ annot_read' = Put(annot_read, sd, annot)
             /\ enrich_calls' = Append(enrich_calls, sd)
             /\ IF res.raised
                THEN pc' = "aborted" /\ exc' = "enrich" /\ UNCHANGED <<output, wi>>
                ELSE /\ output' = Put(output, sd, res.rows)
                     /\ wi' = wi + 1
                     /\ pc' = IF wi = Len(per_dir_files) THEN "done" ELSE "write"
                     /\ UNCHANGED exc
  /\ UNCHANGED <<subdirs, queries, parms, by_dir_rows, fut_to_dir, fut_state, fs,
                 collected, fvars, evars, contig_len_map>>

Next ==
  \/ Discover
  \/ Submit
  \/ \E fut \in DOMAIN fut_state : RunTask(fut)
  \/ \E fut \in DOMAIN fut_state : Collect(fut)
  \/ Write

Spec == MainInit /\ [][Next]_vars

\* ----------------------------------------------------------- claims C1, C2
WellFormed(file) ==
  file.readable /\ \A i \in 1..Len(file.rows) : Len(file.rows[i]) = NCOLS

\* float(rows[0][IDX_GENELEN]) of the file, [ok |-> FALSE] when there is none.
FirstGl(file) ==
  IF file.rows # <<>> /\ Len(file.rows[1]) > IDX_GENELEN
  THEN ParseFloat(At(file.rows[1], IDX_GENELEN))
  ELSE [ok |-> FALSE, v |-> NaN]

\* The length field of r is a number >= gl * m (all three in tenths).
Meets(r, gl, m) ==
  LET lv == ParseFloat(At(r, IDX_LENGTH))
  IN lv.ok /\ lv.v.k = "num" /\ gl.k = "num" /\ m.k = "num" /\ 10 * lv.v.n >= gl.n * m.n

TierRows(file, m) == SelectSeq(file.rows, LAMBDA r : Meets(r, FirstGl(file).v, m))

FirstTier(file, p) ==
  IF TierRows(file, p.parm3) # <<>> THEN TierRows(file, p.parm3)
  ELSE IF TierRows(file, p.parm4) # <<>> THEN TierRows(file, p.parm4)
  ELSE TierRows(file, p.parm5)

GlAboveParm2(file, p) ==
  /\ FirstGl(file).ok /\ FirstGl(file).v.k = "num" /\ p.parm2.k = "num"
  /\ FirstGl(file).v.n > p.parm2.n

\* C1: for a well-formed file whose first-row gene_length parses and is
\* > parm2, filter_one_file returns exactly the rows of the first tier, in the
\* order (parm3, parm4, parm5), that matches at least one row, in file order;
\* never a union of tiers, and the empty list when no tier matches.
C1_FirstTierOnly ==
  (f_pc = "returned" /\ WellFormed(f_file) /\ GlAboveParm2(f_file, f_parms))
    => (~f_out.raised /\ f_out.rows = FirstTier(f_file, f_parms))

\* tier parm3 matches no row, tier parm4 two rows, tier parm5 three rows.
C1_Witness ==
  /\ f_pc = "returned" /\ WellFormed(f_file) /\ GlAboveParm2(f_file, f_parms)
  /\ TierRows(f_file, f_parms.parm3) = <<>>
  /\ Len(TierRows(f_file, f_parms.parm4)) = 2
  /\ Len(TierRows(f_file, f_parms.parm5)) = 3
  /\ f_out.rows = TierRows(f_file, f_parms.parm4)

GlAtMostParm2(file, p) ==
  /\ FirstGl(file).ok /\ FirstGl(file).v.k = "num" /\ p.parm2.k = "num"
  /\ FirstGl(file).v.n <= p.parm2.n

\* C2: when the file has zero rows, or its first-row gene_length does not
\* parse as a number (ValueError, or NaN), or it is <= parm2, filter_one_file returns the empty list whatever
\* the records and parm3, parm4, parm5 are.
C2_GateEmpty ==
  (f_pc = "returned"
   /\ (f_file.rows = <<>> \/ ~FirstGl(f_file).ok \/ FirstGl(f_file).v.k = "nan"
       \/ GlAtMostParm2(f_file, f_parms)))
    => (~f_out.raised /\ f_out.rows = <<>>)

\* gene_length equals parm2 and a record of the file is as long as the gene.
C2_Witness ==
  /\ f_pc = "returned" /\ WellFormed(f_file) /\ GlAtMostParm2(f_file, f_parms)
  /\ FirstGl(f_file).v = f_parms.parm2
  /\ \E i \in 1..Len(f_file.rows) : Meets(f_file.rows[i], FirstGl(f_file).v, f_parms.parm3)
  /\ f_out.rows = <<>>

\* ------------------------------------------------------- claims C3 .. C10
BagOf(q) == [x \in Range(q) |-> Cardinality({i \in 1..Len(q) : q[i] = x})]

\* The directory that holds the file of a future.
Owner(fut) == fut[1]

\* The rows the tasks in F of directory sd returned, in submission order.
RECURSIVE ReturnedRows(_, _, _)
ReturnedRows(futs, sd, F) ==
  IF futs = <<>> THEN <<>>
  ELSE (IF Owner(Head(futs)) = sd /\ Head(futs) \in F THEN fut_state[Head(futs)].rows ELSE <<>>)
       \o ReturnedRows(Tail(futs), sd, F)

AllCollected == pc \in {"write", "done"} \/ (pc = "aborted" /\ exc = "enrich")
Ended == pc \in {"done", "aborted", "nowork"}

\* C3: whatever the completion order, the accumulator of each directory holds
\* exactly the rows (as a multiset) returned by the collected tasks of its own
\* files; once all tasks are collected that is every task of the directory.
C3_RoutedToOwner ==
  /\ \A sd \in DOMAIN by_dir_rows :
       BagOf(by_dir_rows[sd]) = BagOf(ReturnedRows(Futures, sd, collected))
  /\ AllCollected => collected = Range(Futures)

\* Both directories hold rows, and one accumulator is not in submission order.
C3_Witness ==
  /\ pc = "done"
  /\ \A sd \in Dirs : sd \in DOMAIN by_dir_rows /\ by_dir_rows[sd] # <<>>
  /\ by_dir_rows["2L"] # by_dir_rows["2R"]
  /\ \E sd \in Dirs : by_dir_rows[sd] # ReturnedRows(Futures, sd, collected)

\* What enrich_and_write writes for sd when its tasks complete in submission order.
RefOutput(sd) ==
  enrich_and_write(ReturnedRows(Futures, sd, Range(Futures)), contig_len_map, annot_read[sd]).rows

\* The genomic_start values of the rows are numbers, no two equal.
DistinctKeys(rows) ==
  /\ \A i \in 1..Len(rows) : srt(rows[i]).k = "num"
  /\ \A i, j \in 1..Len(rows) : i # j => srt(rows[i]) # srt(rows[j])

\* C4 as stated: the sequence of rows written for a directory is the same for
\* every completion order of its tasks.
C4_SameSequence ==
  \A sd \in DOMAIN output : output[sd] = RefOutput(sd)

\* C4 amended: the rows written for a directory are the same rows, each once,
\* for every completion order; they come in the same sequence when their
\* genomic_start values are pairwise distinct numbers.
C4_SameRows ==
  \A sd \in DOMAIN output :
    /\ BagOf(output[sd]) = BagOf(RefOutput(sd))
    /\ DistinctKeys(RefOutput(sd)) => output[sd] = RefOutput(sd)

\* Two rows with distinct keys were accumulated against the submission order.
C4_Witness ==
  /\ pc = "done"
  /\ \E sd \in DOMAIN output :
       /\ Len(output[sd]) >= 2 /\ DistinctKeys(output[sd])
       /\ by_dir_rows[sd] # ReturnedRows(Futures, sd, Range(Futures))
       /\ output[sd] = RefOutput(sd)

\* C5: at the end of a run a directory has an output file if and only if it
\* had at least one queries/*.csv file, and the output of a directory whose
\* tasks all returned no row holds the header only.
C5_OutputIffFiles ==
  Ended => \A sd \in Dirs :
             /\ (sd \in DOMAIN output) <=> (queries[sd] > 0)
             /\ (sd \in DOMAIN output /\ by_dir_rows[sd] = <<>>) => output[sd] = <<>>

\* A failure while filtering the file of a future.
FilterFails(fut) ==
  filter_body(fs[fut], parms.parm2, parms.parm3, parms.parm4, parms.parm5).raised

\* The rows of the files of sd, among the futures of F, that filter without failure.
RECURSIVE RowsOfGoodFiles(_, _, _)
RowsOfGoodFiles(futs, sd, F) ==
  IF futs = <<>> THEN <<>>
  ELSE (IF Owner(Head(futs)) = sd /\ Head(futs) \in F /\ ~FilterFails(Head(futs))
        THEN filter_body(fs[Head(futs)], parms.parm2, parms.parm3, parms.parm4, parms.parm5).rows
        ELSE <<>>)
       \o RowsOfGoodFiles(Tail(futs), sd, F)

\* C6: a failure while filtering one file is caught in its task, which
\* returns the empty list; no task aborts the run; and every accumulator
\* holds what the other files contribute, as if the failing file were absent.
C6_FailureContained ==
  /\ \A fut \in DOMAIN fs : FilterFails(fut) => fut_state[fut] = Finished(NoResult)
  /\ exc # "task"
  /\ \A sd \in DOMAIN by_dir_rows :
       BagOf(by_dir_rows[sd]) = BagOf(RowsOfGoodFiles(Futures, sd, collected))

\* A directory with a malformed file and a file that contributes rows, and
\* another directory that contributes rows; both outputs are written.
C6_Witness ==
  /\ pc = "done"
  /\ \E f1, f2, f3 \in DOMAIN fs :
       /\ Owner(f1) = Owner(f2) /\ Owner(f3) # Owner(f1)
       /\ FilterFails(f1) /\ fut_state[f2].rows # <<>> /\ fut_state[f3].rows # <<>>
  /\ DOMAIN output = Dirs

\* enrich_and_write raised for sd.
EnrichFailed(sd) ==
  /\ sd \in DOMAIN annot_read
  /\ enrich_and_write(by_dir_rows[sd], contig_len_map, annot_read[sd]).raised

\* C7: when enrich_and_write raises for one directory, the run goes on and
\* every other directory that had input files has its output written.
C7_OthersWritten ==
  Ended => \A sd \in Range(per_dir_files) : ~EnrichFailed(sd) => sd \in DOMAIN output

Count(q, x) == Cardinality({i \in 1..Len(q) : q[i] = x})

\* C10: the accumulators exist, empty, before any task is submitted; they
\* grow only in the collecting loop of main, by the rows of a finished task;
\* enrich_and_write runs only after every task is collected, and at the end of
\* the run it has consumed every accumulator exactly once.
C10_ConsumedOnce ==
  /\ pc = "submit" => \A sd \in DOMAIN by_dir_rows : by_dir_rows[sd] = <<>>
  /\ DOMAIN fut_to_dir # {} => DOMAIN by_dir_rows = Range(per_dir_files)
  /\ pc \in {"start", "submit"} => collected = {}
  /\ enrich_calls # <<>> => collected = Range(Futures) /\ \A fut \in collected : fut_state[fut].done
  /\ \A sd \in Dirs : Count(enrich_calls, sd) <= 1
  /\ Ended => \A sd \in DOMAIN by_dir_rows : Count(enrich_calls, sd) = 1

\* The parts of C10 that do not depend on enrich_and_write returning.
C10_Order ==
  /\ pc = "submit" => \A sd \in DOMAIN by_dir_rows : by_dir_rows[sd] = <<>>
  /\ DOMAIN fut_to_dir # {} => DOMAIN by_dir_rows = Range(per_dir_files)
  /\ pc \in {"start", "submit"} => collected = {}
  /\ enrich_calls # <<>> => collected = Range(Futures) /\ \A fut \in collected : fut_state[fut].done
  /\ \A sd \in Dirs : Count(enrich_calls, sd) <= 1

\* A worker step leaves every accumulator as it is.
C10_OnlyMainAppends ==
  [][by_dir_rows' # by_dir_rows => (pc = "start" \/ pc = "collect")]_vars

\* ----------------------------------------------------------- claims C8, C9
FirstIdx(q, x) == CHOOSE i \in 1..Len(q) : q[i] = x /\ \A j \in 1..(i - 1) : q[j] # x

\* The genomic_start of a written row as a number, [ok |-> FALSE] when it is none.
GsNumber(row) ==
  LET v == ParseFloat(At(row, gs_idx))
  IN IF v.ok /\ v.v.k # "nan" THEN v ELSE [ok |-> FALSE, v |-> NaN]

\* C8: the written rows are in ascending order of genomic_start; the rows
\* whose genomic_start is no number (the NaN of a query without annotation)
\* come after all the others; rows with equal keys keep their dedup order.
C8_SortedNaNLast ==
  e_pc = "written" =>
    \A i, j \in 1..Len(e_res.rows) : i < j =>
      LET a == GsNumber(e_res.rows[i])
          b == GsNumber(e_res.rows[j])
          BaseOf(r) == SubSeq(r, 1, IDX_EVALUE) \o SubSeq(r, IDX_EVALUE + 3, NCOLS + 2)
      IN /\ (a.ok /\ b.ok) => FLe(a.v, b.v)
         /\ ~(~a.ok /\ b.ok)
         /\ ((a.ok /\ b.ok /\ a.v = b.v) \/ (~a.ok /\ ~b.ok))
              => FirstIdx(e_res.dedup, BaseOf(e_res.rows[i]))
                   < FirstIdx(e_res.dedup, BaseOf(e_res.rows[j]))

NoDup(q) == \A i, j \in 1..Len(q) : q[i] = q[j] => i = j

\* C9: the dedup keeps one copy of each distinct row, at its first
\* occurrence and in first-seen order; a second dedup changes nothing.
C9_DedupFirstSeen ==
  e_pc = "written" =>
    /\ NoDup(e_res.dedup)
    /\ Range(e_res.dedup) = Range(e_rows)
    /\ \A i, j \in 1..Len(e_res.dedup) :
         i < j => FirstIdx(e_rows, e_res.dedup[i]) < FirstIdx(e_rows, e_res.dedup[j])
    /\ Dedup(e_res.dedup) = e_res.dedup

\* A row comes back after another one, and the later copy is dropped.
C9_Witness ==
  /\ e_pc = "written"
  /\ Len(e_rows) = 3 /\ e_rows[1] = e_rows[3] /\ e_rows[1] # e_rows[2]
  /\ e_res.dedup = <<e_rows[1], e_rows[2]>>

====
